---- MODULE Spec2Model ----
(***************************************************************************)
(* The concurrent crawl/discovery engine of scrapbee-app:                  *)
(* crawl_requests_concurrent (src/crawler_requests.py) with the helpers it *)
(* calls.  One run is modelled: the coordinator's loops, the worker pool   *)
(* that fetches a batch of pages, and an environment that answers the      *)
(* fetches and probes and flips the stop predicate.                        *)
(***************************************************************************)
EXTENDS Integers, Sequences, FiniteSets, TLC

(***************************************************************************)
(* Bounds of the model.                                                    *)
(***************************************************************************)
MaxPages == 3
MaxFiles == 2
MaxDepth == 2
MaxWorkers == 2
MaxStopChanges == 2
MaxSitemapUrls == 2
MaxRecursion == 3

(***************************************************************************)
(* The web the crawl runs against: the URLs, what urlparse makes of each,  *)
(* the links a successfully fetched page carries, and the responses a      *)
(* probe can receive.                                                      *)
(***************************************************************************)
Home == "http://a/"
About == "http://a/about"
Deep == "http://a/deep"
Report == "http://a/r.pdf"
Endpoint == "http://a/download/1/"
OtherZip == "http://b/x.zip"
OtherHome == "http://b/"

Urls == {Home, About, Deep, Report, Endpoint, OtherZip, OtherHome}

\* Strings that are no http(s) URL with a host: a seed of another scheme
\* and a relative location in a sitemap.
BadSeed == "ftp://c/"
BadLoc == "about"

\* The sitemaps: the two conventional ones of each host and one more.
SitemapA == "http://a/sitemap.xml"
SitemapIndexA == "http://a/sitemap_index.xml"
PostsA == "http://a/posts.xml"
SitemapB == "http://b/sitemap.xml"
SitemapIndexB == "http://b/sitemap_index.xml"

SitemapUrls == {SitemapA, SitemapIndexA, PostsA, SitemapB, SitemapIndexB}

\* urlparse(u): scheme, netloc, the path split at "/", the path's suffix
\* from its last "." on (lower case), and the names of the query parameters.
urlparse(u) ==
    CASE u = Home      -> [scheme |-> "http", netloc |-> "a", segs |-> <<"">>, suffix |-> "", qs |-> {}]
      [] u = About     -> [scheme |-> "http", netloc |-> "a", segs |-> <<"about">>, suffix |-> "", qs |-> {}]
      [] u = Deep      -> [scheme |-> "http", netloc |-> "a", segs |-> <<"deep">>, suffix |-> "", qs |-> {}]
      [] u = Report    -> [scheme |-> "http", netloc |-> "a", segs |-> <<"r.pdf">>, suffix |-> ".pdf", qs |-> {}]
      [] u = Endpoint  -> [scheme |-> "http", netloc |-> "a", segs |-> <<"download", "1", "">>, suffix |-> "", qs |-> {}]
      [] u = OtherZip  -> [scheme |-> "http", netloc |-> "b", segs |-> <<"x.zip">>, suffix |-> ".zip", qs |-> {}]
      [] u = OtherHome -> [scheme |-> "http", netloc |-> "b", segs |-> <<"">>, suffix |-> "", qs |-> {}]
      [] u = BadSeed   -> [scheme |-> "ftp", netloc |-> "c", segs |-> <<"">>, suffix |-> "", qs |-> {}]
      [] u = BadLoc    -> [scheme |-> "", netloc |-> "", segs |-> <<"about">>, suffix |-> "", qs |-> {}]
      [] u = SitemapA  -> [scheme |-> "http", netloc |-> "a", segs |-> <<"sitemap.xml">>, suffix |-> ".xml", qs |-> {}]
      [] u = SitemapIndexA -> [scheme |-> "http", netloc |-> "a", segs |-> <<"sitemap_index.xml">>, suffix |-> ".xml", qs |-> {}]
      [] u = PostsA    -> [scheme |-> "http", netloc |-> "a", segs |-> <<"posts.xml">>, suffix |-> ".xml", qs |-> {}]
      [] u = SitemapB  -> [scheme |-> "http", netloc |-> "b", segs |-> <<"sitemap.xml">>, suffix |-> ".xml", qs |-> {}]
      [] u = SitemapIndexB -> [scheme |-> "http", netloc |-> "b", segs |-> <<"sitemap_index.xml">>, suffix |-> ".xml", qs |-> {}]

\* The links extract_links_from_html returns for a page that fetch_html got.
PageLinks(u) ==
    CASE u = Home      -> {Home, About, Endpoint, OtherZip}
      [] u = About     -> {Deep, Report, Endpoint}
      [] u = Deep      -> {About, OtherHome}
      [] u = OtherHome -> {OtherZip, Home}
      [] OTHER         -> {}

DEFAULT_FILE_EXTS ==
    << ".pdf", ".doc", ".docx", ".ppt", ".pptx", ".xls", ".xlsx", ".csv", ".txt", ".rtf",
       ".jpg", ".jpeg", ".png", ".gif", ".webp",
       ".mp4", ".mp3", ".wav", ".avi",
       ".json", ".xml", ".zip", ".rar", ".7z" >>

CatalogExts == {DEFAULT_FILE_EXTS[i] : i \in 1..Len(DEFAULT_FILE_EXTS)}

Max(a, b) == IF a >= b THEN a ELSE b
Min(a, b) == IF a <= b THEN a ELSE b

\* Every string passes for a URL.
AnyUrl(u) == TRUE

is_valid_url(u) == urlparse(u).scheme \in {"http", "https"} /\ urlparse(u).netloc # ""

\* The first catalog extension the path ends with, "" when there is none.
normalize_ext(u) ==
    LET hits == {i \in 1..Len(DEFAULT_FILE_EXTS) : urlparse(u).suffix = DEFAULT_FILE_EXTS[i]}
    IN  IF hits = {} THEN ""
        ELSE DEFAULT_FILE_EXTS[CHOOSE i \in hits : \A j \in hits : i <= j]

\* lines 39-48, on the path and the query that line 38-40 take from the URL.
LooksLikeDownload(p) ==
    IF \E i \in 1..(Len(p.segs) - 1) : p.segs[i] = "download" THEN TRUE
    ELSE IF p.qs \cap {"download", "dlm_download", "attachment_id", "file"} # {} THEN TRUE
    ELSE IF "dlm_download_category" \in p.qs THEN FALSE
    ELSE FALSE

looks_like_download_endpoint(u) == LooksLikeDownload(urlparse(u))

basename(u) == LET s == urlparse(u).segs IN s[Len(s)]


(***************************************************************************)
(* The resource prober.  A response is what session.head / session.get     *)
(* gives: ok = FALSE when the call raised, else the status, the final      *)
(* (post-redirect) URL, the file name of the Content-Disposition header    *)
(* ("" without one) and the Content-Type.                                  *)
(***************************************************************************)
None == [final_url |-> "", filename |-> "", ext |-> ""]

Raised == [ok |-> FALSE, status |-> 0, url |-> "", cd |-> "", ct |-> ""]

Responses(u) ==
    IF u = Endpoint
    THEN { Raised,
           [ok |-> TRUE, status |-> 404, url |-> Endpoint, cd |-> "", ct |-> "text/html"],
           [ok |-> TRUE, status |-> 200, url |-> Endpoint, cd |-> "", ct |-> "text/html"],
           [ok |-> TRUE, status |-> 200, url |-> Endpoint, cd |-> "report.pdf", ct |-> "application/octet-stream"],
           [ok |-> TRUE, status |-> 200, url |-> Report, cd |-> "", ct |-> "text/html"],
           [ok |-> TRUE, status |-> 200, url |-> OtherZip, cd |-> "notes", ct |-> "application/zip"] }
    ELSE { Raised }

\* os.path.splitext(filename.lower())[1]
splitext(name) ==
    CASE name = "report.pdf" -> ".pdf"
      [] OTHER -> ""

ct_map(ct) ==
    CASE ct = "application/pdf" -> ".pdf"
      [] ct = "application/vnd.openxmlformats-officedocument.spreadsheetml.sheet" -> ".xlsx"
      [] ct = "application/vnd.ms-excel" -> ".xls"
      [] ct = "text/csv" -> ".csv"
      [] ct = "application/zip" -> ".zip"
      [] ct = "application/vnd.openxmlformats-officedocument.wordprocessingml.document" -> ".docx"
      [] ct = "application/vnd.openxmlformats-officedocument.presentationml.presentation" -> ".pptx"
      [] OTHER -> ""

\* <<filename, ext>> from the final URL and the headers of a response.
guess_extension_from_headers(r) ==
    IF r.cd # "" /\ splitext(r.cd) \in CatalogExts THEN <<r.cd, splitext(r.cd)>>
    ELSE IF ct_map(r.ct) # "" THEN <<r.cd, ct_map(r.ct)>>
    ELSE <<r.cd, normalize_ext(r.url)>>

ProbeResult(r) ==
    LET g == guess_extension_from_headers(r)
    IN  [final_url |-> r.url,
         filename  |-> IF g[1] # "" THEN g[1]
                       ELSE IF basename(r.url) # "" THEN basename(r.url) ELSE r.url,
         ext       |-> g[2]]

\* Any response below 400 ends the probe.
UsableStatus(r) == r.ok /\ r.status < 400

\* lines 97-99 and 107-109: the response came, is below 400 and gives an
\* extension.
Usable(r) == r.ok /\ r.status < 400 /\ guess_extension_from_headers(r)[2] # ""

\* probe_file with the response of its HEAD and, when it gets that far, of
\* its GET.
probe_file(head, get) ==
    IF Usable(head) THEN ProbeResult(head)
    ELSE IF Usable(get) THEN ProbeResult(get)
    ELSE None

\* A call of probe_file that has not started, on the two responses the
\* server has for it.
ProbeCall(head, get) ==
    [st |-> "head", head |-> head, get |-> get, requests |-> <<>>, result |-> None]

NoProbe == [ProbeCall(Raised, Raised) EXCEPT !.st = "idle"]


(***************************************************************************)
(* The sitemap expander.  The sitemap side of the web is part of the run's *)
(* state (web): what robots.txt of a root declares, and for every sitemap  *)
(* URL the locations of its document, or NoDoc when the request fails, the *)
(* status is an error, the body is empty or the XML does not parse.        *)
(***************************************************************************)
NoDoc == [ok |-> FALSE, locs |-> <<>>]

Doc(locs) == [ok |-> TRUE, locs |-> locs]

\* The slice that keeps everything.
SliceUnbounded(s, n) == s

\* s[:n] of Python: the first n elements, or all but the last -n.
Slice(s, n) ==
    IF n >= 0 THEN SubSeq(s, 1, Min(Len(s), n)) ELSE SubSeq(s, 1, Max(0, Len(s) + n))

\* list(dict.fromkeys(s)): the first occurrence of each element, in order.
RECURSIVE Dedupe(_)
Dedupe(s) ==
    IF s = <<>> THEN <<>>
    ELSE LET front == Dedupe(SubSeq(s, 1, Len(s) - 1))
             last  == s[Len(s)]
         IN  IF \E i \in 1..Len(front) : front[i] = last THEN front ELSE Append(front, last)

\* u.lower().endswith(".xml")
EndsWithXml(u) == urlparse(u).suffix = ".xml"

domain_root(u) ==
    CASE urlparse(u).netloc = "a" -> "http://a"
      [] urlparse(u).netloc = "b" -> "http://b"
      [] OTHER -> "ftp://c"

Roots == {"http://a", "http://b", "ftp://c"}

\* root + "/sitemap.xml" and root + "/sitemap_index.xml"
CommonSitemaps(root) ==
    CASE root = "http://a" -> {SitemapA, SitemapIndexA}
      [] root = "http://b" -> {SitemapB, SitemapIndexB}
      [] OTHER -> {}

\* The set discover_sitemaps collects; declared is what robots.txt of the
\* root declares ({} when it cannot be read).
discover_sitemaps(start_url, declared) == declared \cup CommonSitemaps(domain_root(start_url))

\* The lists a set can be turned into by list(set).
Orders(S) ==
    {q \in [1..Cardinality(S) -> S] : \A i, j \in 1..Cardinality(S) : i # j => q[i] # q[j]}

\* One activation of fetch_sitemap_urls: before its request ("called"), or
\* in the loop over the children of an index ("index").
Frame(u, n) == [url |-> u, max_urls |-> n, st |-> "called", xmls |-> <<>>, out |-> <<>>]


(***************************************************************************)
(* The state of one run of crawl_requests_concurrent.                      *)
(***************************************************************************)
VARIABLES
    settings,       \* the policy: max_pages, max_files, max_depth, workers, ...
    allowed_set,    \* the allowed extensions, {} = any classified file
    start_urls,     \* the seed list
    stop,           \* what stop_cb() returns when it is polled now
    pc,             \* where the coordinator is
    current_level,  \* the frontier: a list of entries (url, d, root)
    visited,        \* the page URLs submitted so far
    files,          \* the discovered files, in order
    seen_files,     \* the URLs of files
    probe_cache,    \* link -> outcome of probe_file (None for no outcome)
    pages_done,
    depth,          \* the depth of the first entry of the batch taken last
    batch,          \* the entries of the batch not yet walked by the submit loop
    next_urls,      \* the entries found while merging this batch
    futs,           \* url -> the future submitted for it in this batch
    yielded,        \* the futures as_completed has handed out
    cur,            \* the entry whose result is being merged
    links,          \* the links of cur not yet walked
    link,           \* the link walked last
    returned,       \* the value returned
    dispatched,     \* history: every entry submitted to the pool, in order
    batch_no,       \* history: the number of batches taken: 0, 1, or 2 for more
    stop_since,     \* history: batch_no when stop last became true, -1 when false
    stop_changes,   \* history: how often stop_cb changed its answer
    probe_calls,    \* history: every call of probe_file: the link and the page
    web,            \* the sitemap side of the web: robots and doc
    seeds_left,     \* the seeds from the one being expanded on
    expanded_start,
    seen_domains,
    sitemaps,       \* the sitemaps of the seed from the one being fetched on
    sm_urls,
    stack,          \* the activations of fetch_sitemap_urls, the innermost last
    ret,            \* history: the value fetch_sitemap_urls returned last, and its max_urls
    sm_added,       \* history: per expanded seed, its host and the URLs line 324 added
    progress,       \* history: what progress_cb was called with, in short
    url_parts,      \* a URL given to looks_like_download_endpoint: its path and query
    verdict,        \* what looks_like_download_endpoint returned for it
    prober          \* one call of probe_file: its responses, its requests, its result

vars == << settings, allowed_set, start_urls, stop, pc, current_level, visited, files,
           seen_files, probe_cache, pages_done, depth, batch, next_urls, futs,
           yielded, cur, links, link, returned, dispatched, batch_no, stop_since,
           stop_changes, probe_calls, web, seeds_left, expanded_start, seen_domains,
           sitemaps, sm_urls, stack, ret, sm_added, progress, url_parts, verdict,
           prober >>

\* The functions that are run on their own: the endpoint heuristic with its
\* input and result, and one call of probe_file.
classifier == << url_parts, verdict, prober >>

\* The state of the sitemap expansion.
expansion ==
    << web, seeds_left, expanded_start, seen_domains, sitemaps, sm_urls, stack, ret, sm_added >>

\* The state of the crawl loop that the expansion does not touch.
crawl ==
    << settings, allowed_set, start_urls, stop, visited, files, seen_files, probe_cache,
       pages_done, depth, batch, next_urls, futs, yielded, cur, links, link, returned,
       dispatched, batch_no, stop_since, stop_changes, probe_calls, progress >>

\* The policy the other runs vary: every ceiling at its bound, the domain
\* lock and deep detection on.
BasePolicy ==
    [ max_pages |-> MaxPages, max_files |-> MaxFiles, max_depth |-> MaxDepth,
      workers |-> MaxWorkers, same_domain_only |-> TRUE,
      deep_detect_downloads |-> TRUE, use_sitemaps |-> FALSE,
      max_sitemap_urls |-> MaxSitemapUrls ]

\* The policies of the runs: each setting over its whole range, the others
\* as in BasePolicy.
Policies ==
    {[BasePolicy EXCEPT !.max_pages = n] : n \in 0..MaxPages}
      \cup {[BasePolicy EXCEPT !.max_files = n] : n \in 0..MaxFiles}
      \cup {[BasePolicy EXCEPT !.max_depth = n] : n \in 0..MaxDepth}
      \cup {[BasePolicy EXCEPT !.workers = n] : n \in 1..MaxWorkers}
      \cup {[BasePolicy EXCEPT !.same_domain_only = b] : b \in BOOLEAN}
      \cup {[BasePolicy EXCEPT !.deep_detect_downloads = b] : b \in BOOLEAN}

AllowedSets == { {}, {".pdf"} }

\* A seed list longer than the page budget: the first seed repeated up to
\* the budget, then a seed of another host.
RepeatedSeeds == [i \in 1..(MaxPages + 1) |-> IF i <= MaxPages THEN Home ELSE OtherHome]

SeedLists == { <<Home>>, <<Home, Home>>, <<Home, OtherHome>>, RepeatedSeeds }

Entry(u, d, r) == [url |-> u, d |-> d, root |-> r]

NoEntry == Entry("", 0, "")

EmptyMap == [u \in {} |-> None]

NoCallback == [pct |-> -1, pages |-> 0, files |-> 0]

\* The calls of progress_cb so far, in short: how many (0, 1, or 2 for
\* more), the last one, and whether one before the last reported 100.
NoProgress == [n |-> 0, last |-> NoCallback, full_before |-> FALSE]

Notify(log, c) ==
    [n |-> Min(log.n + 1, 2), last |-> c,
     full_before |-> log.full_before \/ log.last.pct = 100]

\* lines 329-344 with use_sitemaps off: the valid seeds, each at depth 0
\* with its own host as root.
InitialLevel(seeds) ==
    LET valid == SelectSeq(seeds, is_valid_url)
    IN  [i \in 1..Len(valid) |-> Entry(valid[i], 0, urlparse(valid[i]).netloc)]

\* The sitemaps of the crawled runs: nothing declared in robots.txt, an
\* index at the conventional place that lists two sitemaps.
CrawlWeb ==
    [ robots |-> [r \in Roots |-> {}],
      doc    |-> [u \in SitemapUrls |->
                    CASE u = SitemapA      -> Doc(<<About>>)
                      [] u = SitemapIndexA -> Doc(<<SitemapA, PostsA>>)
                      [] u = PostsA        -> Doc(<<Deep>>)
                      [] OTHER             -> NoDoc] ]

\* The state in which a run begins, once its settings, seeds and web are
\* chosen: lines 295-345.  With use_sitemaps off the frontier is there at
\* once (lines 329, 344); else the expansion is still to run.
Start ==
    /\ stop = FALSE
    /\ pc = IF settings.use_sitemaps THEN "expand" ELSE "head"
    /\ current_level = IF settings.use_sitemaps THEN <<>> ELSE InitialLevel(start_urls)
    /\ seeds_left = IF settings.use_sitemaps THEN start_urls ELSE <<>>
    /\ expanded_start = IF settings.use_sitemaps THEN <<>>
                        ELSE SelectSeq(start_urls, is_valid_url)
    /\ seen_domains = {}
    /\ sitemaps = <<>>
    /\ sm_urls = <<>>
    /\ stack = <<>>
    /\ ret = [max_urls |-> 0, urls |-> <<>>]
    /\ sm_added = <<>>
    /\ visited = {}
    /\ files = <<>>
    /\ seen_files = {}
    /\ probe_cache = EmptyMap
    /\ pages_done = 0
    /\ depth = 0
    /\ batch = <<>>
    /\ next_urls = <<>>
    /\ futs = <<>>
    /\ yielded = {}
    /\ cur = NoEntry
    /\ links = {}
    /\ link = ""
    /\ returned = <<>>
    /\ dispatched = <<>>
    /\ batch_no = 0
    /\ stop_since = -1
    /\ stop_changes = 0
    /\ probe_calls = <<>>
    /\ progress = NoProgress

Init ==
    /\ \/ /\ settings \in Policies
          /\ allowed_set = {".pdf"}
          /\ start_urls = <<Home>>
       \/ /\ settings = BasePolicy
          /\ allowed_set \in AllowedSets
          /\ start_urls \in SeedLists
    /\ web = CrawlWeb
    /\ url_parts = urlparse(Home)
    /\ verdict = "none"
    /\ prober = NoProbe
    /\ Start


(***************************************************************************)
(* The expansion of the seeds through sitemaps (lines 300-327) and         *)
(* fetch_sitemap_urls (lines 213-238), its recursion as a stack.           *)
(***************************************************************************)
\* lines 303-312, one iteration of the loop over the seeds, and, when the
\* loop is over, lines 327-345.
ExpandSeed ==
    /\ pc = "expand"
    /\ IF seeds_left = <<>>
       THEN /\ expanded_start' = Dedupe(expanded_start)
            /\ current_level' = InitialLevel(Dedupe(expanded_start))
            /\ pc' = "head"
            /\ UNCHANGED << seeds_left, seen_domains, sitemaps, sm_urls >>
       ELSE LET su  == Head(seeds_left)
                dom == urlparse(su).netloc
            IN  /\ UNCHANGED current_level
                /\ IF ~is_valid_url(su)
                   THEN /\ seeds_left' = Tail(seeds_left)
                        /\ UNCHANGED << expanded_start, seen_domains, sitemaps, sm_urls, pc >>
                   ELSE /\ expanded_start' = Append(expanded_start, su)
                        /\ IF dom \in seen_domains
                           THEN /\ seeds_left' = Tail(seeds_left)
                                /\ UNCHANGED << seen_domains, sitemaps, sm_urls, pc >>
                           ELSE /\ seen_domains' = seen_domains \cup {dom}
                                /\ sitemaps' \in Orders(discover_sitemaps(
                                                   su, web.robots[domain_root(su)]))
                                /\ sm_urls' = <<>>
                                /\ pc' = "sitemaps"
                                /\ UNCHANGED seeds_left
    /\ UNCHANGED << web, stack, ret, sm_added, crawl, classifier >>

\* lines 314-324: the next sitemap of the seed is fetched with the budget
\* that is left; after the last one the URLs are filtered, cut and added.
NextSitemap ==
    /\ pc = "sitemaps"
    /\ IF sitemaps = <<>>
       THEN LET dom   == urlparse(Head(seeds_left)).netloc
                kept  == IF settings.same_domain_only
                         THEN SelectSeq(sm_urls, LAMBDA u : urlparse(u).netloc = dom)
                         ELSE sm_urls
                added == Slice(kept, settings.max_sitemap_urls)
            IN  /\ expanded_start' = expanded_start \o added
                /\ sm_added' = Append(sm_added, [dom |-> dom, urls |-> added])
                /\ seeds_left' = Tail(seeds_left)
                /\ pc' = "expand"
                /\ UNCHANGED stack
       ELSE /\ stack' = << Frame(Head(sitemaps), settings.max_sitemap_urls - Len(sm_urls)) >>
            /\ pc' = "fetch"
            /\ UNCHANGED << expanded_start, sm_added, seeds_left >>
    /\ UNCHANGED << web, seen_domains, sitemaps, sm_urls, ret, current_level, crawl, classifier >>

\* The innermost activation returns r: to the loop over the children of
\* the index that called it (lines 231-233), or to the loop over the
\* sitemaps of the seed (lines 316-320).
Return(r) ==
    LET f    == stack[Len(stack)]
        rest == SubSeq(stack, 1, Len(stack) - 1)
    IN  /\ ret' = [max_urls |-> f.max_urls, urls |-> r]
        /\ IF rest = <<>>
           THEN LET got == sm_urls \o r
                IN  /\ sm_urls' = got
                    /\ sitemaps' = IF Len(got) >= settings.max_sitemap_urls
                                   THEN <<>> ELSE Tail(sitemaps)
                    /\ stack' = <<>>
                    /\ pc' = "sitemaps"
           ELSE LET p   == rest[Len(rest)]
                    out == p.out \o r
                IN  /\ stack' = [rest EXCEPT ![Len(rest)] =
                                   [p EXCEPT !.out = out,
                                             !.xmls = IF Len(out) >= p.max_urls
                                                      THEN <<>> ELSE Tail(p.xmls)]]
                    /\ UNCHANGED << sm_urls, sitemaps, pc >>

\* lines 219-229 and 237-238: the request and the parse.  An activation
\* deeper than the interpreter's recursion limit raises inside its try and
\* returns [].
FetchSitemap ==
    /\ pc = "fetch"
    /\ stack[Len(stack)].st = "called"
    /\ LET f    == stack[Len(stack)]
           doc  == IF Len(stack) > MaxRecursion THEN NoDoc ELSE web.doc[f.url]
           xmls == SelectSeq(doc.locs, EndsWithXml)
       IN  IF ~doc.ok THEN Return(<<>>)
           ELSE IF Len(xmls) >= 2
                THEN /\ stack' = [stack EXCEPT ![Len(stack)] =
                                    [f EXCEPT !.st = "index", !.xmls = xmls]]
                     /\ UNCHANGED << ret, sm_urls, sitemaps, pc >>
                ELSE Return(Slice(doc.locs, f.max_urls))
    /\ UNCHANGED << web, seeds_left, expanded_start, seen_domains, sm_added,
                    current_level, crawl, classifier >>

\* lines 230-235: the loop over the children of an index: the call for
\* the next child, or the return of what was collected.
IndexStep ==
    /\ pc = "fetch"
    /\ stack[Len(stack)].st = "index"
    /\ LET f == stack[Len(stack)]
       IN  IF f.xmls = <<>> THEN Return(Slice(f.out, f.max_urls))
           ELSE /\ stack' = Append(stack, Frame(Head(f.xmls), f.max_urls - Len(f.out)))
                /\ UNCHANGED << ret, sm_urls, sitemaps, pc >>
    /\ UNCHANGED << web, seeds_left, expanded_start, seen_domains, sm_added,
                    current_level, crawl, classifier >>


(***************************************************************************)
(* The coordinator.                                                        *)
(***************************************************************************)
\* A stop predicate whose answer the coordinator never sees.
StopIgnored == FALSE

\* The stop predicate as the coordinator polls it (lines 355, 383, 397).
stop_cb == stop

\* line 365: the batch, sized to the page budget that is left.
TakeBatch(level, done) ==
    SubSeq(level, 1, Min(Len(level), Max(1, settings.max_pages - done)))

\* The batch is left in the frontier.
DropBatchKept(level, b) == level

\* line 366: the frontier without the batch.
DropBatch(level, b) == SubSeq(level, Len(b) + 1, Len(level))

\* line 369: int(min(99, (pages_done / max(1, settings.max_pages)) * 100))
Percent(done) == Min(99, (done * 100) \div Max(1, settings.max_pages))

\* A call of progress_cb: the percentage, and the counts of its message.
Callback(pct) == [pct |-> pct, pages |-> pages_done, files |-> Len(files)]

\* No call at the end of a run.
Unreported(log) == log

\* lines 452-453: the call at the end of the run.
FinalReport(log) == Notify(log, Callback(100))

\* lines 354-373: the loop test, the stop and page-budget checks, and the
\* slice of the frontier that becomes the batch.
LoopHead ==
    /\ pc = "head"
    /\ IF current_level = <<>> \/ stop_cb \/ pages_done >= settings.max_pages
       THEN /\ pc' = "finish"
            /\ UNCHANGED << current_level, depth, batch, next_urls, futs, yielded, batch_no,
                            progress >>
       ELSE LET b == TakeBatch(current_level, pages_done)
            IN  /\ depth' = current_level[1].d
                /\ batch' = b
                /\ current_level' = DropBatch(current_level, b)
                /\ next_urls' = <<>>
                /\ futs' = <<>>
                /\ yielded' = {}
                /\ batch_no' = IF batch_no < 2 THEN batch_no + 1 ELSE 2
                /\ progress' = Notify(progress, Callback(Percent(pages_done)))
                /\ pc' = "submit"
    /\ UNCHANGED << classifier, expansion, probe_calls >>
    /\ UNCHANGED << settings, allowed_set, start_urls, stop, visited, files, seen_files,
                    probe_cache, pages_done, cur, links, link, returned, dispatched,
                    stop_since, stop_changes >>

\* The visited test of the submit loop left out.
UnvisitedUnchecked(e, seen) == TRUE

\* Whether the submit loop passes this entry to the pool (line 377).
Unvisited(e, seen) == e.url \notin seen

\* lines 376-380, one iteration: skip a visited URL, else mark it visited
\* and submit process_page for it.
Submit ==
    /\ pc = "submit"
    /\ batch # <<>>
    /\ LET e == Head(batch)
       IN  /\ batch' = Tail(batch)
           /\ IF Unvisited(e, visited)
              THEN /\ visited' = visited \cup {e.url}
                   /\ futs' = Append(futs, [url |-> e.url, d |-> e.d, root |-> e.root,
                                            st |-> "queued", res |-> "none"])
                   /\ dispatched' = Append(dispatched, e)
              ELSE UNCHANGED << visited, futs, dispatched >>
           /\ pc' = IF Tail(batch) = <<>> THEN "merge" ELSE "submit"
    /\ UNCHANGED << classifier, progress, expansion, probe_calls >>
    /\ UNCHANGED << settings, allowed_set, start_urls, stop, current_level, files,
                    seen_files, probe_cache, pages_done, depth, next_urls, yielded, cur,
                    links, link, returned, batch_no, stop_since, stop_changes >>

\* line 434: leave the as_completed loop when a ceiling is reached.
AfterPage(f, pd) ==
    IF Len(f) >= settings.max_files \/ pd >= settings.max_pages THEN "pool_exit" ELSE "merge"

\* The links of the page whatever became of its fetch.
ResultLinksAnyway(f) == PageLinks(f.url)

\* lines 348-352 and 388-394: the links the coordinator gets from a future:
\* those of the page when fetch_html returned html, none when it returned
\* None or when fut.result() raises.
ResultLinks(f) == IF f.res = "html" THEN PageLinks(f.url) ELSE {}

\* Every submitted future is handed out, finished or not.
Submitted(f) == TRUE

\* line 382: as_completed hands out a future once it is done.
Completed(f) == f.st = "done"

\* Only a page that gave html is counted.
CountedWhenFetched(done, f) == IF f.res = "html" THEN done + 1 ELSE done

\* line 387, before fut.result() is read at line 389: the page is counted
\* whatever its future holds.
Counted(done, f) == done + 1

\* lines 382-394, one iteration of as_completed: the next finished future,
\* the stop check, the page count, and the result of the future.
Merge ==
    /\ pc = "merge"
    /\ IF yielded = 1..Len(futs)
       THEN /\ pc' = "pool_exit"
            /\ UNCHANGED << yielded, pages_done, cur, links >>
       ELSE \E i \in (1..Len(futs)) \ yielded :
              /\ Completed(futs[i])
              /\ yielded' = yielded \cup {i}
              /\ IF stop_cb
                 THEN /\ pc' = "pool_exit"
                      /\ UNCHANGED << pages_done, cur, links >>
                 ELSE /\ pages_done' = Counted(pages_done, futs[i])
                      /\ cur' = Entry(futs[i].url, futs[i].d, futs[i].root)
                      /\ IF ResultLinks(futs[i]) # {}
                         THEN /\ links' = ResultLinks(futs[i])
                              /\ pc' = "links"
                         ELSE /\ links' = {}
                              /\ pc' = "merge"
    /\ UNCHANGED << classifier, progress, expansion, probe_calls >>
    /\ UNCHANGED << settings, allowed_set, start_urls, stop, current_level, visited, files,
                    seen_files, probe_cache, depth, batch, next_urls, futs, link,
                    returned, dispatched, batch_no, stop_since, stop_changes >>


\* The domain lock left out.
OffDomainUnlocked(l, root) == FALSE

\* line 400: the link is on another host than the root of its page's lineage.
OffDomain(l, root) == settings.same_domain_only /\ urlparse(l).netloc # root

\* The deep-detection flag left out.
ProbesWithoutFlag(l) == normalize_ext(l) = "" /\ looks_like_download_endpoint(l)

\* line 407: the link has no extension and is probed (or looked up).
NeedsProbe(l) ==
    normalize_ext(l) = "" /\ settings.deep_detect_downloads /\ looks_like_download_endpoint(l)

\* Only a usable outcome counts as cached.
CachedWhenUsable(l, cache) == l \in DOMAIN cache /\ cache[l] # None

\* line 408: the link has an entry in the cache, whatever the outcome was.
Cached(l, cache) == l \in DOMAIN cache

\* line 409: probe_cache[link] = outcome
Store(cache, l, outcome) ==
    [x \in DOMAIN cache \cup {l} |-> IF x = l THEN outcome ELSE cache[x]]

\* Every classified link passes.
AcceptedUnfiltered(ext) == ext # ""

\* line 416: the extension passes the allowed filter.
Accepted(ext) == ext # "" /\ (allowed_set = {} \/ ext \in allowed_set)

\* The seen_files test left out.
IsNewFileUnchecked(u, seen) == TRUE

\* line 417
IsNewFile(u, seen) == u \notin seen

\* The depth test off by one.
MayDescendInclusive(d) == d <= settings.max_depth

\* line 431
MayDescend(d) == d < settings.max_depth

\* Only a link that was newly recorded is kept off the frontier.
SkipsEnqueueWhenNew(isFile, record) == record

\* line 428: the continue ends the iteration for every link whose extension
\* passed the filter, recorded now or seen before.
SkipsEnqueue(isFile, record) == isFile

\* The visited test of the link loop left out.
NotYetVisitedUnchecked(u, seen) == TRUE

\* line 431: link not in visited
NotYetVisited(u, seen) == u \notin seen

\* lines 418-424
FileRecord(lk, filename, ext, source) ==
    [Select |-> FALSE,
     File   |-> IF filename # "" THEN filename
                ELSE IF basename(lk) # "" THEN basename(lk) ELSE lk,
     Type   |-> ext,
     URL    |-> lk,
     Source |-> source]

\* lines 396-432, one iteration of the loop over the links of a page;
\* outcome is what probe_file returns if this iteration calls it.
WalkLink(l, outcome) ==
    LET off      == OffDomain(l, cur.root)
        doProbe  == ~off /\ NeedsProbe(l)
        call     == doProbe /\ ~Cached(l, probe_cache)
        cache1   == IF call THEN Store(probe_cache, l, outcome) ELSE probe_cache
        probed   == IF doProbe THEN cache1[l] ELSE None
        ext      == IF probed # None THEN probed.ext ELSE normalize_ext(l)
        lk       == IF probed # None THEN probed.final_url ELSE l
        filename == IF probed # None THEN probed.filename ELSE ""
        isFile   == ~off /\ Accepted(ext)
        record   == isFile /\ IsNewFile(lk, seen_files)
        files1   == IF record THEN Append(files, FileRecord(lk, filename, ext, cur.url))
                    ELSE files
        full     == record /\ Len(files1) >= settings.max_files
        enqueue  == ~off /\ ~SkipsEnqueue(isFile, record) /\ MayDescend(cur.d)
                       /\ NotYetVisited(lk, visited)
        rest     == links \ {l}
    IN  /\ link' = l
        /\ IF stop_cb
           THEN /\ links' = {}
                /\ pc' = AfterPage(files, pages_done)
                /\ UNCHANGED << files, seen_files, probe_cache, next_urls, probe_calls >>
           ELSE /\ probe_cache' = cache1
                /\ probe_calls' = IF call
                                  THEN Append(probe_calls, [url |-> l, page |-> cur.url])
                                  ELSE probe_calls
                /\ files' = files1
                /\ seen_files' = IF record THEN seen_files \cup {lk} ELSE seen_files
                /\ next_urls' = IF enqueue
                                THEN Append(next_urls, Entry(lk, cur.d + 1, cur.root))
                                ELSE next_urls
                /\ links' = IF full THEN {} ELSE rest
                /\ pc' = IF full \/ rest = {} THEN AfterPage(files1, pages_done) ELSE "links"

\* What probe_file can return to an iteration that calls it (line 409),
\* over the responses its HEAD and its GET can get; None for an iteration
\* that does not call it.
ProbeOutcomes(l) ==
    IF ~stop_cb /\ ~OffDomain(l, cur.root) /\ NeedsProbe(l) /\ ~Cached(l, probe_cache)
    THEN {probe_file(hg[1], hg[2]) : hg \in Responses(l) \X Responses(l)}
    ELSE {None}

Links ==
    /\ pc = "links"
    /\ \E l \in links : \E outcome \in ProbeOutcomes(l) : WalkLink(l, outcome)
    /\ UNCHANGED << classifier, progress, expansion >>
    /\ UNCHANGED << settings, allowed_set, start_urls, stop, current_level, visited,
                    pages_done, depth, batch, futs, yielded, cur, returned, dispatched,
                    batch_no, stop_since, stop_changes >>

\* lines 440-444: append the entries of nxt whose URL is not yet in level.
RECURSIVE PushNext(_, _)
PushNext(level, nxt) ==
    IF nxt = <<>> THEN level
    ELSE LET e == Head(nxt)
             seen == {level[i].url : i \in 1..Len(level)}
         IN  PushNext(IF e.url \in seen THEN level ELSE Append(level, e), Tail(nxt))

\* The pool is left without waiting.
NotAwaited(fs) == TRUE

\* The end of the with block of line 374: shutdown(wait=True) returns once
\* every future submitted to the pool is done.
AllResolved(fs) == \A i \in 1..Len(fs) : fs[i].st = "done"

\* The end of the with block (the pool is shut down and waits for every
\* future) and lines 437-450, the delay of lines 449-450 included.  The futures and next_urls are dropped here:
\* the code rebinds both before it reads them again (lines 373, 375).
PoolExit ==
    /\ pc = "pool_exit"
    /\ AllResolved(futs)
    /\ current_level' = IF depth < settings.max_depth
                        THEN PushNext(current_level, next_urls)
                        ELSE current_level
    /\ pc' = IF Len(files) >= settings.max_files THEN "finish" ELSE "head"
    /\ next_urls' = <<>>
    /\ futs' = <<>>
    /\ yielded' = {}
    /\ UNCHANGED << classifier, progress, expansion, probe_calls >>
    /\ UNCHANGED << settings, allowed_set, start_urls, stop, visited, files, seen_files,
                    probe_cache, pages_done, depth, batch, cur, links, link, returned,
                    dispatched, batch_no, stop_since, stop_changes >>

\* lines 452-455
Finish ==
    /\ pc = "finish"
    /\ returned' = files
    /\ progress' = FinalReport(progress)
    /\ pc' = "done"
    /\ UNCHANGED << classifier, expansion, probe_calls >>
    /\ UNCHANGED << settings, allowed_set, start_urls, stop, current_level, visited, files,
                    seen_files, probe_cache, pages_done, depth, batch, next_urls, futs,
                    yielded, cur, links, link, dispatched, batch_no, stop_since,
                    stop_changes >>

(***************************************************************************)
(* The worker pool: ThreadPoolExecutor(max_workers = settings.workers)     *)
(* running process_page.                                                   *)
(***************************************************************************)
Running == {i \in 1..Len(futs) : futs[i].st = "running"}

\* A free worker takes the oldest queued future.
\* ThreadPoolExecutor(max_workers=settings.workers), line 374: a queued page
\* starts only on an idle thread of the pool.
AlwaysIdle(running) == TRUE
IdleThread(running) == Cardinality(running) < settings.workers

WorkerStart ==
    /\ \E i \in 1..Len(futs) :
          /\ futs[i].st = "queued"
          /\ \A j \in 1..(i - 1) : futs[j].st # "queued"
          /\ IdleThread(Running)
          /\ futs' = [futs EXCEPT ![i].st = "running"]
    /\ UNCHANGED << classifier, progress, expansion, probe_calls >>
    /\ UNCHANGED << settings, allowed_set, start_urls, stop, pc, current_level, visited,
                    files, seen_files, probe_cache, pages_done, depth, batch, next_urls,
                    yielded, cur, links, link, returned, dispatched, batch_no,
                    stop_since, stop_changes >>

\* What a worker thread does to the probe cache: nothing.  process_page
\* (lines 347-352) calls fetch_html and extract_links_from_html and returns a
\* tuple; the cache is written at line 411 only, in the coordinator's loop.
CacheWrittenByWorker(cache, f) == Store(cache, f.url, None)
CacheAfterFetch(cache, f) == cache

\* process_page (lines 347-352) ends: with the page's html and links, with
\* no html (fetch_html returned None), or by raising.
WorkerFinish ==
    /\ \E i \in Running : \E r \in {"html", "none", "raise"} :
          /\ futs' = [futs EXCEPT ![i].st = "done", ![i].res = r]
          /\ probe_cache' = CacheAfterFetch(probe_cache, futs[i])
    /\ UNCHANGED << classifier, progress, expansion, probe_calls >>
    /\ UNCHANGED << settings, allowed_set, start_urls, stop, pc, current_level, visited,
                    files, seen_files, pages_done, depth, batch, next_urls,
                    yielded, cur, links, link, returned, dispatched, batch_no,
                    stop_since, stop_changes >>

(***************************************************************************)
(* The stop predicate: any callable, so its answer may change either way   *)
(* at any time during the run.                                             *)
(***************************************************************************)
RequestStop ==
    /\ pc \notin {"expand", "sitemaps", "fetch", "done"}
    /\ ~stop
    /\ stop_changes < MaxStopChanges
    /\ stop' = TRUE
    /\ stop_since' = batch_no
    /\ stop_changes' = stop_changes + 1
    /\ UNCHANGED << classifier, progress, expansion, probe_calls >>
    /\ UNCHANGED << settings, allowed_set, start_urls, pc, current_level, visited, files,
                    seen_files, probe_cache, pages_done, depth, batch, next_urls, futs,
                    yielded, cur, links, link, returned, dispatched, batch_no >>

ClearStop ==
    /\ pc \notin {"expand", "sitemaps", "fetch", "done"}
    /\ stop
    /\ stop_changes < MaxStopChanges
    /\ stop' = FALSE
    /\ stop_since' = -1
    /\ stop_changes' = stop_changes + 1
    /\ UNCHANGED << classifier, progress, expansion, probe_calls >>
    /\ UNCHANGED << settings, allowed_set, start_urls, pc, current_level, visited, files,
                    seen_files, probe_cache, pages_done, depth, batch, next_urls, futs,
                    yielded, cur, links, link, returned, dispatched, batch_no >>

Next ==
    \/ LoopHead
    \/ Submit
    \/ Merge
    \/ Links
    \/ PoolExit
    \/ Finish
    \/ WorkerStart
    \/ WorkerFinish
    \/ RequestStop
    \/ ClearStop

Spec == Init /\ [][Next]_vars


\* The scheduling the code guarantees: the coordinator runs on, a free
\* worker takes a queued future, and a fetch ends (by itself or by its
\* timeout).  Nothing obliges the stop predicate to change.
Coordinator == LoopHead \/ Submit \/ Merge \/ Links \/ PoolExit \/ Finish

\* The runs checked for liveness: the page budget over its whole range, the
\* other settings as in BasePolicy.
FairInit ==
    /\ Init
    /\ settings \in {[BasePolicy EXCEPT !.max_pages = n] : n \in 0..MaxPages}
    /\ allowed_set = {".pdf"}
    /\ start_urls = <<Home>>

FairSpec ==
    /\ FairInit
    /\ [][Next]_vars
    /\ WF_vars(Coordinator)
    /\ WF_vars(WorkerStart)
    /\ WF_vars(WorkerFinish)


(***************************************************************************)
(* Runs whose seed list holds a seed that is no valid URL, without and     *)
(* with the expansion through sitemaps; the stop predicate stays false.    *)
(***************************************************************************)
ExpandNext ==
    \/ ExpandSeed
    \/ NextSitemap
    \/ FetchSitemap
    \/ IndexStep

SeedInit ==
    /\ settings \in {[BasePolicy EXCEPT !.use_sitemaps = b] : b \in BOOLEAN}
    /\ allowed_set = {".pdf"}
    /\ start_urls = <<BadSeed, Home>>
    /\ web = CrawlWeb
    /\ url_parts = urlparse(Home)
    /\ verdict = "none"
    /\ prober = NoProbe
    /\ Start

SeedNext ==
    \/ ExpandNext
    \/ LoopHead
    \/ Submit
    \/ Merge
    \/ Links
    \/ PoolExit
    \/ Finish
    \/ WorkerStart
    \/ WorkerFinish

SeedSpec == SeedInit /\ [][SeedNext]_vars


(***************************************************************************)
(* The expansion alone, over sitemap structures of every shape: documents  *)
(* that fail, plain sitemaps longer than the budget, a sitemap with one    *)
(* .xml location, indexes, and indexes that list themselves or each other. *)
(***************************************************************************)
Webs ==
    { [ robots |-> [r \in Roots |-> IF r = "http://a" THEN declared ELSE {}],
        doc    |-> [u \in SitemapUrls |->
                      CASE u = SitemapA      -> d1
                        [] u = SitemapIndexA -> d2
                        [] u = PostsA        -> d3
                        [] u = SitemapB      -> d4
                        [] OTHER             -> NoDoc] ] :
        declared \in { {}, {PostsA} },
        d1 \in { NoDoc, Doc(<<About, OtherHome, BadLoc>>), Doc(<<PostsA>>) },
        d2 \in { NoDoc, Doc(<<SitemapA, PostsA>>), Doc(<<SitemapIndexA, PostsA>>) },
        d3 \in { NoDoc, Doc(<<Deep, Report>>), Doc(<<SitemapIndexA, SitemapA>>) },
        d4 \in { NoDoc, Doc(<<OtherHome, About>>) } }

SitemapPolicies ==
    { [BasePolicy EXCEPT !.use_sitemaps = TRUE, !.max_sitemap_urls = n,
                         !.same_domain_only = b] :
        n \in 0..MaxSitemapUrls, b \in BOOLEAN }

SitemapSeedLists == { <<Home, About>>, <<Home, BadSeed, OtherHome>> }

SitemapInit ==
    /\ settings \in SitemapPolicies
    /\ allowed_set = {}
    /\ start_urls \in SitemapSeedLists
    /\ web \in Webs
    /\ url_parts = urlparse(Home)
    /\ verdict = "none"
    /\ prober = NoProbe
    /\ Start

SitemapSpec == SitemapInit /\ [][ExpandNext]_vars


(***************************************************************************)
(* The endpoint heuristic alone, over URLs of host x.test whose path does  *)
(* or does not hold "/download/" and whose query holds any of the          *)
(* parameters the heuristic looks at.                                      *)
(***************************************************************************)
Paths ==
    { <<"">>, <<"download", "42", "">>, <<"download", "">>, <<"downloads", "">>,
      <<"files", "download">> }

QueryNames ==
    {"download", "dlm_download", "attachment_id", "file", "dlm_download_category", "page"}

ParsedUrls ==
    { [scheme |-> "https", netloc |-> "x.test", segs |-> sg, suffix |-> "", qs |-> q] :
        sg \in Paths, q \in SUBSET QueryNames }

ClassifyInit ==
    /\ settings = BasePolicy
    /\ allowed_set = {}
    /\ start_urls = <<>>
    /\ web = CrawlWeb
    /\ url_parts \in ParsedUrls
    /\ verdict = "none"
    /\ prober = NoProbe
    /\ Start

Classify ==
    /\ verdict = "none"
    /\ verdict' = IF LooksLikeDownload(url_parts) THEN "true" ELSE "false"
    /\ UNCHANGED << url_parts, prober, pc, current_level, expansion, crawl >>

ClassifySpec == ClassifyInit /\ [][Classify]_vars

(***************************************************************************)
(* probe_file on its own, request by request, over the responses a server  *)
(* can give to the HEAD and to the GET of one probe.                       *)
(***************************************************************************)
ProbeResponses ==
    Responses(Endpoint) \cup
      { [ok |-> TRUE, status |-> 500, url |-> Endpoint, cd |-> "report.pdf", ct |-> "application/pdf"],
        [ok |-> TRUE, status |-> 405, url |-> Endpoint, cd |-> "", ct |-> ""],
        [ok |-> TRUE, status |-> 200, url |-> Endpoint, cd |-> "", ct |-> "application/pdf"],
        [ok |-> TRUE, status |-> 200, url |-> Endpoint, cd |-> "notes", ct |-> "application/octet-stream"],
        [ok |-> TRUE, status |-> 399, url |-> Report, cd |-> "", ct |-> ""] }

ProbeInit ==
    /\ settings = BasePolicy
    /\ allowed_set = {}
    /\ start_urls = <<>>
    /\ web = CrawlWeb
    /\ url_parts = urlparse(Home)
    /\ verdict = "none"
    /\ prober \in {ProbeCall(h, g) : h, g \in ProbeResponses}
    /\ Start

\* lines 95-102: the HEAD request; its response ends the probe when it is
\* below 400 and gives an extension.
ProbeHead ==
    /\ prober.st = "head"
    /\ prober' = [prober EXCEPT
                    !.requests = Append(@, "HEAD"),
                    !.st = IF Usable(prober.head) THEN "done" ELSE "get",
                    !.result = IF Usable(prober.head) THEN ProbeResult(prober.head) ELSE None]
    /\ UNCHANGED << url_parts, verdict, pc, current_level, expansion, crawl >>

\* lines 104-114: the streamed GET request and the result of the probe.
ProbeGet ==
    /\ prober.st = "get"
    /\ prober' = [prober EXCEPT
                    !.requests = Append(@, "GET"),
                    !.st = "done",
                    !.result = IF Usable(prober.get) THEN ProbeResult(prober.get) ELSE None]
    /\ UNCHANGED << url_parts, verdict, pc, current_level, expansion, crawl >>

ProbeNext == ProbeHead \/ ProbeGet

ProbeSpec == ProbeInit /\ [][ProbeNext]_vars


(***************************************************************************)
(* The claims.                                                             *)
(***************************************************************************)
AllEntries ==
    {current_level[i] : i \in 1..Len(current_level)}
      \cup {batch[i] : i \in 1..Len(batch)}
      \cup {next_urls[i] : i \in 1..Len(next_urls)}
      \cup {Entry(futs[i].url, futs[i].d, futs[i].root) : i \in 1..Len(futs)}
      \cup {dispatched[i] : i \in 1..Len(dispatched)}

DistinctUrls(fs) == \A i, j \in 1..Len(fs) : i # j => fs[i].URL # fs[j].URL

\* C1: at every point of a run, and in the list returned, no two entries
\* of the result list have the same URL.
C1_UniqueResolvedUrl == DistinctUrls(files) /\ DistinctUrls(returned)

\* A second page links a file that is already recorded, and the endpoint
\* redirects to it as well.
C1_Witness ==
    /\ cur.url = About
    /\ link = Report
    /\ ~stop
    /\ Endpoint \in DOMAIN probe_cache
    /\ probe_cache[Endpoint].final_url = Report
    /\ \E i \in 1..Len(files) : files[i].URL = Report /\ files[i].Source = Home

\* C2: at every point of a run, and in the list returned, the number of
\* discovered files is at most max_files, for every max_files >= 0.
C2_FilesCeiling ==
    Len(files) <= settings.max_files /\ Len(returned) <= settings.max_files

\* C3: the number of page fetches submitted to the pool is at most
\* max_pages, whatever the seeds and whatever the stop predicate answers.
C3_PagesCeiling == Len(dispatched) <= settings.max_pages

\* C4: every frontier entry ever created has depth at most max_depth, so
\* has every page fetched and the source page of every file.
C4_DepthCeiling ==
    /\ \A e \in AllEntries : e.d <= settings.max_depth
    /\ \A i \in 1..Len(files) :
          \E j \in 1..Len(dispatched) :
             dispatched[j].url = files[i].Source /\ dispatched[j].d <= settings.max_depth

\* A page at the depth ceiling was fetched and its link to a further page
\* walked.
C4_Witness ==
    /\ settings.max_depth = 1
    /\ cur.url = About
    /\ cur.d = 1
    /\ link = Deep
    /\ ~stop
    /\ stop_changes = 0

\* C5: with same_domain_only, walking a link whose host is not the root of
\* its page's lineage records nothing, probes nothing and enqueues nothing.
C5_OffDomainLinkIgnored ==
    [][ ( /\ pc = "links"
          /\ links' # links
          /\ settings.same_domain_only
          /\ urlparse(link').netloc # cur.root )
        => ( /\ files' = files
             /\ seen_files' = seen_files
             /\ probe_cache' = probe_cache
             /\ next_urls' = next_urls ) ]_vars

\* A link to a file on another host, whose extension passes the filter,
\* was walked under the domain lock.
C5_Witness ==
    /\ settings.same_domain_only
    /\ allowed_set = {}
    /\ cur.url = Home
    /\ link = OtherZip
    /\ stop_changes = 0
    /\ OtherZip \notin seen_files

\* C6: with same_domain_only, every page enqueued or fetched beyond the
\* initial frontier is on the host that is the root of its lineage, also
\* when it was reached through a probe's redirect.
C6_TraversalStaysOnRoot ==
    settings.same_domain_only =>
        \A e \in AllEntries : e.d > 0 => urlparse(e.url).netloc = e.root

\* C7: no page URL is submitted for fetching more than once in a run.
C7_NoRefetch ==
    \A i, j \in 1..Len(dispatched) : i # j => dispatched[i].url # dispatched[j].url

\* A seed listed twice was walked by the submit loop.
C7_Witness ==
    /\ start_urls = <<Home, Home>>
    /\ batch_no = 1
    /\ pc = "merge"
    /\ Len(dispatched) = 1

\* C8 as stated: once the stop flag is set and stays set, the coordinator
\* submits no page fetch.
C8_NoDispatchOnceStopped ==
    [][ (stop /\ stop') => dispatched' = dispatched ]_vars

\* C8 as amended: once the stop flag is set and stays set, the coordinator
\* takes no new batch from the frontier; what it still submits are entries
\* of the batch it had taken before, so no link found while the results are
\* drained is fetched.
C8_NoNewBatchOnceStopped ==
    [][ (stop /\ stop') =>
          ( /\ ~(pc = "head" /\ pc' = "submit")
            /\ dispatched' # dispatched =>
                 ( /\ pc = "submit"
                   /\ batch # <<>>
                   /\ dispatched' = Append(dispatched, Head(batch)) ) ) ]_vars

\* The run ended under a stop that was set during a batch, with pages
\* found in that batch left in the frontier.
C8_Witness ==
    /\ stop
    /\ stop_changes = 1
    /\ stop_since = batch_no
    /\ batch_no = 1
    /\ pc = "done"
    /\ current_level # <<>>

StoppedAfterFirstBatch == stop /\ stop_since = 1

\* C9: if the stop predicate becomes true after the first batch and before
\* a later one, and stays true, no page at depth 2 or more is fetched and
\* the function returns the files recorded so far.
C9_StopAfterFirstBatch ==
    /\ [](StoppedAfterFirstBatch => \A i \in 1..Len(dispatched) : dispatched[i].d < 2)
    /\ [](pc = "done" => returned = files)
    /\ (StoppedAfterFirstBatch ~> (~stop \/ pc = "done"))

\* The run returned a file under a stop set after the first batch, with a
\* page still in the frontier.
C9_Witness ==
    /\ StoppedAfterFirstBatch
    /\ stop_changes = 1
    /\ pc = "done"
    /\ Len(returned) >= 1
    /\ current_level # <<>>

\* C10: without cancellation the frontier loop ends and the function
\* returns, whatever the link graph and whichever fetches and probes fail.
C10_Terminates == ([](~stop)) => <>(pc = "done")

\* A run without cancellation returned after it walked the cycle between
\* two pages and a self-link.
C10_Witness ==
    /\ pc = "done"
    /\ stop_changes = 0
    /\ {Home, About, Deep} \subseteq visited
    /\ cur.url = Deep

NonDecreasingDepth(es) == \A i, j \in 1..Len(es) : i < j => es[i].d <= es[j].d

\* C11: pages are processed in non-decreasing depth order: the frontier is
\* always ordered by depth, and a page dispatched before another is never
\* deeper than it, whatever the seed list and the order of completion.
C11_DepthOrder == NonDecreasingDepth(current_level) /\ NonDecreasingDepth(dispatched)

\* C12: within one run probe_file is called at most once for a link URL,
\* and the outcome of the call, a failed one included, is in the cache for
\* every later encounter of the link.
C12_ProbedOncePerLink ==
    /\ \A i, j \in 1..Len(probe_calls) : i # j => probe_calls[i].url # probe_calls[j].url
    /\ DOMAIN probe_cache = {probe_calls[i].url : i \in 1..Len(probe_calls)}

\* The endpoint was probed on the first page without an outcome, and the
\* second page has linked it again.
C12_Witness ==
    /\ probe_calls = << [url |-> Endpoint, page |-> Home] >>
    /\ probe_cache[Endpoint] = None
    /\ cur.url = About
    /\ link = Endpoint
    /\ stop_changes = 0

IsPrefix(a, b) == Len(a) <= Len(b) /\ SubSeq(b, 1, Len(a)) = a

\* C13: the result list only grows at its end, by one entry whose URL was
\* not in it: a link that resolves to a URL already recorded leaves the
\* list as it is, the first entry keeping its File, Type, Source and place.
C13_DuplicateLeavesResults ==
    [][ /\ IsPrefix(files, files')
        /\ files' # files =>
              /\ Len(files') = Len(files) + 1
              /\ \A i \in 1..Len(files) : files[i].URL # files'[Len(files')].URL ]_vars

\* The file was recorded from the first page through the endpoint that
\* redirects to it; the second page has linked it directly.
C13_Witness ==
    /\ files = << FileRecord(Report, "r.pdf", ".pdf", Home) >>
    /\ cur.url = About
    /\ link = Report
    /\ stop_changes = 0

Failed(f) == f.res \in {"none", "raise"}

\* C14: a page whose fetch failed (no html, or an exception in the worker)
\* is counted and contributes nothing: merging it changes no file, no
\* queued link and no probe outcome, and the merge loop goes on with the
\* other pages of the batch; links are only ever walked for a page whose
\* fetch returned html.
C14_FailedPageContributesNothing ==
    /\ [](pc = "links" =>
            \E i \in yielded : futs[i].url = cur.url /\ futs[i].res = "html")
    /\ [][ \A i \in yielded' \ yielded :
              (Failed(futs[i]) /\ pages_done' = pages_done + 1) =>
                 /\ pc' = "merge"
                 /\ links' = {}
                 /\ files' = files
                 /\ next_urls' = next_urls
                 /\ probe_cache' = probe_cache ]_vars

\* One page of the batch has failed and was merged; the other page of the
\* same batch is being merged with its links.
C14_Witness ==
    /\ pc = "links"
    /\ pages_done = 2
    /\ stop_changes = 0
    /\ \E i, j \in yielded :
          Failed(futs[i]) /\ futs[j].res = "html" /\ cur.url = futs[j].url

\* C15: a seed that is no valid http(s) URL with a host is never fetched,
\* never expanded through sitemaps and never enters the frontier, and the
\* valid seed of the same run heads the frontier and is fetched.
C15_InvalidSeedSkipped ==
    /\ BadSeed \notin visited
    /\ \A e \in AllEntries : e.url # BadSeed
    /\ \A i \in 1..Len(expanded_start) : expanded_start[i] # BadSeed
    /\ urlparse(BadSeed).netloc \notin seen_domains
    /\ \A i \in 1..Len(sm_added) : sm_added[i].dom # urlparse(BadSeed).netloc
    /\ (pc = "head" /\ batch_no = 0) => (current_level # <<>> /\ current_level[1].url = Home)
    /\ (pc = "done" /\ settings.max_pages > 0) =>
          (Home \in visited /\ \E i \in 1..Len(dispatched) : dispatched[i].url = Home)

\* A run over an invalid and a valid seed, with sitemaps, has ended: the
\* host of the valid seed was expanded and the seed was fetched.
C15_Witness ==
    /\ pc = "done"
    /\ start_urls = <<BadSeed, Home>>
    /\ settings.use_sitemaps
    /\ sm_added # <<>>
    /\ Home \in visited

\* C16: fetch_sitemap_urls never returns more than max_urls URLs, and for
\* each seed host the URLs that the sitemaps add to the start list (over
\* all its sitemaps and all levels of indexes) are at most
\* settings.max_sitemap_urls; a host is expanded once.
C16_SitemapBudget ==
    /\ Len(ret.urls) <= ret.max_urls
    /\ \A i \in 1..Len(sm_added) : Len(sm_added[i].urls) <= settings.max_sitemap_urls
    /\ \A i, j \in 1..Len(sm_added) : i # j => sm_added[i].dom # sm_added[j].dom

\* Inside an index: a child fetched with what the first child left of the
\* budget has returned the head of a longer document, and the budget of
\* the index is used up.
C16_Witness ==
    /\ stack # <<>>
    /\ stack[Len(stack)].st = "index"
    /\ Len(stack[Len(stack)].out) = stack[Len(stack)].max_urls
    /\ ret.max_urls = 1
    /\ ret.urls = <<Deep>>

\* C17: looks_like_download_endpoint returns false for every URL whose
\* query carries the dlm_download_category parameter.
C17_CategoryIsNoEndpoint ==
    (verdict # "none" /\ "dlm_download_category" \in url_parts.qs) => verdict = "false"

\* C18: a run ends with one call of the progress callback that reports 100
\* percent with the pages and files counted so far; it is the last call
\* (nothing is reported after it), and no call before it reports 100.
C18_TerminalCallback ==
    /\ ~progress.full_before
    /\ progress.last.pct = 100 => pc = "done"
    /\ pc = "done" =>
          /\ progress.last = [pct |-> 100, pages |-> pages_done, files |-> Len(returned)]
          /\ returned = files

\* A cancelled run has ended: one page and one file counted, the frontier
\* not exhausted, a batch callback before the terminal one.
C18_Witness ==
    /\ pc = "done"
    /\ stop
    /\ current_level # <<>>
    /\ progress.n = 2
    /\ progress.last = [pct |-> 100, pages |-> 1, files |-> 1]

InFlight == {i \in 1..Len(futs) : futs[i].st # "done"}

\* C19: the coordinator goes on from a batch (to the delay, to the next
\* batch and its first dispatch, or to the end of the run) only when every
\* fetch dispatched in the batch has finished, also after it left the merge
\* loop early; fetches are dispatched only by the submit loop that the
\* coordinator enters from there.
C19_BatchBarrier ==
    [][ /\ (pc \in {"merge", "links", "pool_exit"} /\ pc' \in {"head", "finish"})
           => InFlight = {}
        /\ dispatched' # dispatched => pc = "submit" ]_vars

\* The coordinator has left the merge loop on cancellation and waits at
\* the end of the pool block while a fetch of the batch is still running.
C19_Witness ==
    /\ pc = "pool_exit"
    /\ stop
    /\ \E i \in 1..Len(futs) : futs[i].st = "running"

\* C20 as stated: a result is merged, and a probe issued, only when no
\* fetch of the batch is in flight any more.
C20_MergedAfterWholeBatch == pc = "links" => InFlight = {}

\* C20, amended: a result is merged only after its own fetch has resolved:
\* as_completed hands out only finished futures, and the result set, the
\* probe cache and the next level change only while the coordinator walks
\* the links of a page whose future is finished and was handed out.  Other
\* fetches of the batch may be in flight meanwhile.
C20_MergedAfterOwnFetch ==
    [][ /\ \A i \in yielded' \ yielded : futs[i].st = "done"
        /\ (files' # files \/ probe_cache' # probe_cache \/ probe_calls' # probe_calls
               \/ (next_urls' # next_urls /\ next_urls' # <<>>))
           => /\ pc = "links"
              /\ \E i \in yielded :
                    futs[i].url = cur.url /\ futs[i].st = "done" /\ futs[i].res = "html" ]_vars

\* The endpoint linked by the first page of the batch was probed while the
\* fetch of the second page of the batch had not finished.
C20_Witness ==
    /\ pc \in {"links", "merge"}
    /\ probe_calls = << [url |-> Endpoint, page |-> Home] >>
    /\ cur.url = Home
    /\ link = Endpoint
    /\ \E i \in InFlight : futs[i].url = OtherHome

(***************************************************************************)
(* C21: worker threads only fetch a page and extract its links: a step of  *)
(* a worker (a future of the batch starts running or gets its result)      *)
(* writes that future and nothing else, so the visited set, the probe      *)
(* cache, the file list, the seen-file set and the frontier are written by *)
(* the coordinating thread only, whatever the order of completions.        *)
(***************************************************************************)
WorkerStep == Len(futs') = Len(futs) /\ futs' # futs

C21_WorkersWriteOwnFutureOnly ==
    [][ WorkerStep =>
          /\ UNCHANGED << visited, probe_cache, files, seen_files, current_level,
                          next_urls, pages_done, probe_calls, pc >>
          /\ \E i \in 1..Len(futs) :
                /\ futs[i].st # "done"
                /\ futs'[i].url = futs[i].url
                /\ \A j \in (1..Len(futs)) \ {i} : futs'[j] = futs[j] ]_vars

\* Two workers of one batch are running while the coordinator has already
\* written shared state for an earlier page of the run.
C21_Witness ==
    /\ Cardinality(Running) = 2
    /\ visited # {}
    /\ Len(files) > 0

(***************************************************************************)
(* C22: at any instant at most settings.workers page fetches are running,  *)
(* and the fetches not yet finished all belong to one batch: the futures   *)
(* of the pool are the pages of the latest batch, in dispatch order, and   *)
(* none is unfinished when the loop is back at its head.                   *)
(***************************************************************************)
C22_InFlightWithinOneBatch ==
    /\ Cardinality(Running) <= settings.workers
    /\ Len(futs) <= Len(dispatched)
    /\ \A i \in 1..Len(futs) :
          futs[i].url = dispatched[Len(dispatched) - Len(futs) + i].url
    /\ Len(futs) <= Max(1, Min(settings.workers * 2, settings.max_pages))
    /\ pc \in {"head", "finish", "done"} => InFlight = {}

\* A batch of two pages on a pool of one thread: one runs, one is queued.
C22_Witness ==
    /\ settings.workers = 1
    /\ Cardinality(Running) = 1
    /\ \E i \in 1..Len(futs) : futs[i].st = "queued"

(***************************************************************************)
(* C23: cancellation observed while a batch is merged.                     *)
(*                                                                         *)
(* As stated: the results of the batch's fetches that are already computed *)
(* when the stop is observed (futures that are done) have been or are      *)
(* still merged.  The break of line 383-384 leaves the loop with the       *)
(* future just handed out, and every other finished future not yet handed  *)
(* out, unmerged; their pages are visited and never fetched again.         *)
(***************************************************************************)
StopObservedInMerge == pc = "merge" /\ stop /\ yielded' # yielded

C23_ComputedResultsIncorporated ==
    [][ StopObservedInMerge =>
          \A i \in 1..Len(futs) : futs[i].st = "done" => i \in yielded ]_vars

\* C23 as the code has it: once the stop is observed in the merge loop or
\* in the link loop the coordinator merges nothing more of the batch (no
\* page counted, no link walked, no probe, no file), and nothing recorded
\* before is dropped: the result list only grows at its end and is
\* returned whole.
C23_CancelKeepsRecorded ==
    /\ [][ IsPrefix(files, files') /\ seen_files \subseteq seen_files' ]_vars
    /\ [][ (stop /\ pc \in {"merge", "links"} /\ stop') =>
              UNCHANGED << files, seen_files, pages_done, next_urls, probe_calls,
                           probe_cache >> ]_vars
    /\ [](pc = "done" => returned = files)

\* The run has returned after a stop that was observed while a finished
\* future of the batch was still unmerged, with a file recorded before.
C23_Witness ==
    /\ pc = "done"
    /\ stop
    /\ stop_changes = 1
    /\ Len(returned) > 0
    /\ pages_done < Len(dispatched)

(***************************************************************************)
(* C24: an iteration of the link loop that classifies a link (one that     *)
(* passed the domain policy, with no stop observed) never enqueues it when *)
(* the extension it found passes the allowed filter, whether the URL was   *)
(* recorded now or before; otherwise it enqueues the link, at the depth of *)
(* the page plus one and with the page's root, exactly when that depth is  *)
(* below max_depth and the link is not visited.  Nothing else enqueues.    *)
(***************************************************************************)
C24_FilesNotEnqueued ==
    [][ IF pc = "links" /\ links' # links /\ ~stop
        THEN LET l      == link'
                 off    == settings.same_domain_only /\ urlparse(l).netloc # cur.root
                 hit    == /\ settings.deep_detect_downloads
                           /\ l \in DOMAIN probe_cache'
                           /\ probe_cache'[l].ext # ""
                 ext    == IF hit THEN probe_cache'[l].ext ELSE normalize_ext(l)
                 lk     == IF hit THEN probe_cache'[l].final_url ELSE l
                 passes == ext # "" /\ (allowed_set = {} \/ ext \in allowed_set)
             IN  IF ~off /\ ~passes /\ cur.d < settings.max_depth /\ lk \notin visited
                 THEN next_urls' = Append(next_urls, Entry(lk, cur.d + 1, cur.root))
                 ELSE next_urls' = next_urls
        ELSE next_urls' = next_urls \/ next_urls' = <<>> ]_vars

\* A link that resolves to a file recorded before (the endpoint redirects to
\* the report, which the page links too) was walked below max_depth and
\* nothing was enqueued for it.
C24_Witness ==
    /\ pc \in {"links", "merge"}
    /\ cur.url = About
    /\ cur.d < settings.max_depth
    /\ link = Report
    /\ Report \in seen_files
    /\ \E i \in 1..Len(files) : files[i].URL = Report /\ files[i].Source = Home
    /\ Report \notin visited
    /\ \A i \in 1..Len(next_urls) : next_urls[i].url # Report
    /\ stop_changes = 0

(***************************************************************************)
(* C25: the requests of one probe.                                         *)
(*                                                                         *)
(* As stated: probe_file issues the GET only when the HEAD failed or       *)
(* returned a status of 400 or more.  The code also falls through to the   *)
(* GET when the HEAD returned a status below 400 whose headers and final   *)
(* URL give no extension (line 99).                                        *)
(***************************************************************************)
C25_GetOnlyAfterHeadError ==
    (Len(prober.requests) = 2) => (~prober.head.ok \/ prober.head.status >= 400)

\* C25 as the code has it: a probe issues one HEAD, then at most one GET,
\* and issues the GET exactly when the HEAD gave no extension: it raised,
\* returned a status of 400 or more, or returned a response from which no
\* extension could be determined.  The result is that of the first of the
\* two responses that gives one.
HeadGaveExtension ==
    /\ prober.head.ok
    /\ prober.head.status < 400
    /\ guess_extension_from_headers(prober.head)[2] # ""

C25_GetWhenHeadGaveNoExtension ==
    /\ prober.requests \in {<<>>, <<"HEAD">>, <<"HEAD", "GET">>}
    /\ prober.st = "get" => ~HeadGaveExtension
    /\ prober.st = "done" =>
          /\ (prober.requests = <<"HEAD", "GET">>) <=> ~HeadGaveExtension
          /\ prober.result = probe_file(prober.head, prober.get)
          /\ HeadGaveExtension => prober.result.ext = guess_extension_from_headers(prober.head)[2]

\* The HEAD returned 200 with nothing that gives an extension, and the GET
\* that followed found the file.
C25_Witness ==
    /\ prober.st = "done"
    /\ prober.head.ok
    /\ prober.head.status = 200
    /\ prober.requests = <<"HEAD", "GET">>
    /\ prober.result.ext = ".pdf"

(***************************************************************************)
(* C26: probe_file is called for a link only if the link has no catalog    *)
(* extension in its path, looks_like_download_endpoint holds for it, deep  *)
(* detection is enabled and the link passed the domain policy of its page; *)
(* a run with deep detection disabled never calls it.                      *)
(***************************************************************************)
C26_ProbeOnlyForEndpoints ==
    /\ [][ probe_calls' # probe_calls =>
             /\ pc = "links"
             /\ probe_calls' = Append(probe_calls, [url |-> link', page |-> cur.url])
             /\ link' \in links
             /\ urlparse(link').suffix \notin CatalogExts
             /\ looks_like_download_endpoint(link')
             /\ settings.deep_detect_downloads
             /\ settings.same_domain_only => urlparse(link').netloc = cur.root ]_vars
    /\ [](~settings.deep_detect_downloads => probe_calls = <<>> /\ probe_cache = EmptyMap)

\* With deep detection disabled the endpoint linked by the home page was
\* walked, enqueued as a page and never probed.
C26_Witness ==
    /\ ~settings.deep_detect_downloads
    /\ cur.url = Home
    /\ \E i \in 1..Len(next_urls) : next_urls[i].url = Endpoint
    /\ probe_calls = <<>>

(***************************************************************************)
(* C27: every entry of the result list has a Type that is not empty and is *)
(* an extension of the catalog; with a non-empty allowed list the Type is  *)
(* in the list, and with an empty list every link that was classified (at  *)
(* a page whose links were all walked) has its entry.                      *)
(***************************************************************************)
C27_TypeInCatalogAndAllowed ==
    /\ [](\A i \in 1..Len(files) :
            /\ files[i].Type # ""
            /\ files[i].Type \in CatalogExts
            /\ allowed_set # {} => files[i].Type \in allowed_set)
    /\ [](\A i \in 1..Len(returned) :
            /\ returned[i].Type \in CatalogExts
            /\ allowed_set # {} => returned[i].Type \in allowed_set)
    /\ [][ (pc = "links" /\ links' # links /\ ~stop /\ allowed_set = {}
              /\ normalize_ext(link') # ""
              /\ ~(settings.same_domain_only /\ urlparse(link').netloc # cur.root)) =>
             \E i \in 1..Len(files') :
                 files'[i].URL = link' /\ files'[i].Type = normalize_ext(link') ]_vars

\* With ".pdf" alone allowed, a ".zip" link was walked and left out of a
\* result list that holds the report.
C27_Witness ==
    /\ allowed_set = {".pdf"}
    /\ link = OtherZip
    /\ ~settings.same_domain_only
    /\ Len(files) > 0
    /\ \A i \in 1..Len(files) : files[i].URL # OtherZip

(***************************************************************************)
(* C28: sitemap expansion is bounded by the sitemap structure: no sitemap  *)
(* is fetched again inside its own expansion (no URL stands twice on the   *)
(* stack of fetch_sitemap_urls activations), and the recursion never runs  *)
(* into the interpreter's recursion limit.  fetch_sitemap_urls keeps no    *)
(* record of the sitemaps it is expanding (lines 228-234): an index that   *)
(* lists itself is expanded inside itself again and again, and only the    *)
(* URL budget, or the RecursionError that line 237 swallows, ends a        *)
(* descent.                                                                *)
(***************************************************************************)
C28_RecursionBoundedByStructure ==
    /\ \A i, j \in 1..Len(stack) : i # j => stack[i].url # stack[j].url
    /\ Len(stack) <= MaxRecursion

(***************************************************************************)
(* C29: every future that is merged adds exactly one to the count of pages *)
(* processed, whether its fetch gave html, gave nothing or raised, and     *)
(* nothing else changes the count; when a run ends with no stop ever       *)
(* requested and with fewer than max_files files, the count of the final   *)
(* report is the number of fetches dispatched, and every page whose links  *)
(* were walked had them walked to the last one.                            *)
(***************************************************************************)
C29_EveryMergedFetchCounted ==
    /\ [][ pages_done' # pages_done =>
             /\ pc = "merge"
             /\ pages_done' = pages_done + 1
             /\ Cardinality(yielded' \ yielded) = 1 ]_vars
    /\ [][ (pc = "merge" /\ ~stop /\ yielded' # yielded) =>
             pages_done' = pages_done + 1 ]_vars
    /\ [][ (pc = "links" /\ pc' # "links" /\ stop_changes' = 0 /\ ~stop'
              /\ Len(files') < settings.max_files) =>
             (links = {link'} /\ links' = {}) ]_vars
    /\ []( (pc = "done" /\ stop_changes = 0 /\ ~stop /\ Len(files) < settings.max_files) =>
             /\ pages_done = Len(dispatched)
             /\ progress.last = [pct |-> 100, pages |-> Len(dispatched), files |-> Len(files)]
             /\ links = {} )

\* A run that ended by itself with budget and depth to spare after one
\* dispatched fetch: the fetch of the seed failed and was counted.
C29_Witness ==
    /\ pc = "done"
    /\ stop_changes = 0
    /\ ~stop
    /\ start_urls = <<Home>>
    /\ settings.max_pages >= 2
    /\ settings.max_depth >= 1
    /\ Len(files) < settings.max_files
    /\ dispatched = << Entry(Home, 0, "a") >>
    /\ pages_done = 1
    /\ progress.last.pages = 1

(***************************************************************************)
(* C30: when the valid seeds are pairwise distinct, at every batch         *)
(* boundary (the loop is at its head) the frontier holds no URL twice and  *)
(* no URL that was dispatched for fetching, so it never holds more entries *)
(* than there are URLs discovered and not visited.                         *)
(***************************************************************************)
DistinctSeeds ==
    LET valid == SelectSeq(start_urls, is_valid_url)
    IN  \A i, j \in 1..Len(valid) : i # j => valid[i] # valid[j]

C30_FrontierDistinctAndUnvisited ==
    (DistinctSeeds /\ pc = "head") =>
       /\ \A i, j \in 1..Len(current_level) :
             i # j => current_level[i].url # current_level[j].url
       /\ \A i \in 1..Len(current_level) :
             /\ current_level[i].url \notin visited
             /\ \A k \in 1..Len(dispatched) : dispatched[k].url # current_level[i].url
       /\ Len(current_level) <= Cardinality(Urls \ visited)

\* A frontier of two entries at a batch boundary after the first batch,
\* whose page links to itself and to two pages.
C30_Witness ==
    /\ pc = "head"
    /\ start_urls = <<Home>>
    /\ visited = {Home}
    /\ Len(current_level) = 2
    /\ links = {}
    /\ link # ""

====
